---- MODULE Spec2Model ----
(***************************************************************************)
(* Risk-management gateway: read-through settings cache, the two-source    *)
(* settings read (getAutoLiqSettings), the settings write                  *)
(* (setAutoLiqSettings) and the three protected route handlers.            *)
(*                                                                         *)
(* Conventions.  A JavaScript value that may be null/undefined is a        *)
(* sequence of length 0 (null) or 1 (the value).  A JSON object is a       *)
(* function whose DOMAIN is the set of keys the object carries.  A text    *)
(* (error message) is a sequence of tokens: fixed phrases are one token,   *)
(* decimal digits are one token each, so that String.includes("401") is a  *)
(* real substring search over digits.                                      *)
(***************************************************************************)
EXTENDS Integers, Sequences, FiniteSets, TLC

VARIABLES
  now,          \* Date.now(), in seconds
  cache,        \* the node-cache instance: key -> entry
  pc,           \* where each request is in its handler
  req,          \* the request served in each slot
  userAutoLiq,  \* getAutoLiqSettings' local of that name
  calls,        \* the downstream calls each request has issued
  resp,         \* the response of each request
  obs,          \* history: what the downstream API answered to each request
  lastPost,     \* history: per account, the record of a write nothing has followed yet
  lastMiss,     \* history: per account, the record of a read miss nothing has followed yet
  callAuth,     \* history: the client each downstream call of a request was issued with
  preWriteKeys, \* history: cache keys whose entry was fetched before a write since applied
  credentials,  \* request.auth.credentials as far as the auth scheme has built them
  contacts,     \* history: the collaborators the auth scheme has called for each request
  mOwner, mPerm, mResult, \* inputs and result of one getAutoLiqSettings evaluation
  wAccountId, wOut, wResult, \* inputs and result of one setAutoLiqSettings evaluation
  inflight,     \* the answer of the downstream API to an update call, on its way back
  applied       \* history: per account, the record of the update the downstream API applied last

vars == <<now, cache, pc, req, userAutoLiq, calls, resp, obs, lastPost,
          lastMiss, callAuth, preWriteKeys, credentials, contacts,
          mOwner, mPerm, mResult, wAccountId, wOut, wResult, inflight, applied>>

gatewayVars == <<now, cache, pc, req, userAutoLiq, calls, resp, obs, lastPost,
                 lastMiss, callAuth, preWriteKeys, credentials, contacts>>
mergeVars == <<mOwner, mPerm, mResult>>
writeVars == <<wAccountId, wOut, wResult>>
wireVars == <<inflight, applied>>
\* what the route handlers and the auth scheme never touch
otherVars == <<mergeVars, writeVars, wireVars>>

(***************************************************************************)
(* Bounds of the model.                                                    *)
(***************************************************************************)
\* the clock advances in steps of ClockStep seconds up to MaxNow
ClockStep == 1800
MaxNow == 5400

\* request slots served concurrently
Reqs == {"r1", "r2"}
\* the slot of the runs that serve one request at a time
SeqReqs == {"r1"}

\* account ids used by requests (4010 has the digits 401 in it)
Accounts == {42, 4010}

(***************************************************************************)
(* Program constants.                                                      *)
(***************************************************************************)
\* new NodeCache({ stdTTL: 3600, checkperiod: 600 })
stdTTL == 3600

Null == <<>>
Some(x) == <<x>>

(***************************************************************************)
(* Texts.                                                                  *)
(***************************************************************************)
\* s.includes(pat) over token sequences
Includes(s, pat) ==
  \E i \in 0..(Len(s) - Len(pat)) :
     \A j \in 1..Len(pat) : s[i + j] = pat[j]

RECURSIVE Digits(_)
\* String(n) for a non-negative integer, one token per decimal digit
Digits(n) ==
  LET d == CASE n % 10 = 0 -> "0" [] n % 10 = 1 -> "1" [] n % 10 = 2 -> "2"
             [] n % 10 = 3 -> "3" [] n % 10 = 4 -> "4" [] n % 10 = 5 -> "5"
             [] n % 10 = 6 -> "6" [] n % 10 = 7 -> "7" [] n % 10 = 8 -> "8"
             [] OTHER -> "9"
  IN IF n < 10 THEN <<d>> ELSE Digits(n \div 10) \o <<d>>

Txt401 == <<"4", "0", "1">>
TxtAccessDenied == <<"Access is denied">>

(***************************************************************************)
(* Authorized client (lib/auth, not part of the sources at hand): a call   *)
(* either yields a payload or throws an Error whose message names the      *)
(* failure kind.                                                           *)
(***************************************************************************)
ErrorKinds == {"Unauthorized", "AccessDenied", "NotFound", "RateLimited", "Upstream"}

ClientErrorMessage(kind) ==
  CASE kind = "Unauthorized" -> <<"Tradovate API error ">> \o Txt401
    [] kind = "AccessDenied" -> <<"Tradovate API error ">> \o TxtAccessDenied
    [] kind = "NotFound"     -> <<"Tradovate API error ", "4", "0", "4">>
    [] kind = "RateLimited"  -> <<"Tradovate API error ", "4", "2", "9">>
    [] OTHER                 -> <<"Tradovate API error ", "5", "0", "0">>

\* the two kinds by which the downstream API rejects the delegated credential
IsUnauthorizedKind(kind) == kind \in {"Unauthorized", "AccessDenied"}

Thrown(kind) == [ok |-> FALSE, kind |-> kind, message |-> ClientErrorMessage(kind)]
Returned(body) == [ok |-> TRUE, body |-> body]

(***************************************************************************)
(* Settings records (UserAccountAutoLiq) as JSON objects.                  *)
(***************************************************************************)
RecordsOver(ids, losses, profits) ==
  LET withId == {[id |-> i] : i \in ids}
      opt(S, k, V) == S \cup {[f \in DOMAIN s \cup {k} |->
                                 IF f = k THEN v ELSE s[f]] : s \in S, v \in V}
      base == {<<>>} \cup withId
  IN  opt(opt(base, "dailyLossAutoLiq", losses), "dailyProfitAutoLiq", profits)

\* JavaScript truthiness of record.id
HasId(rec) == "id" \in DOMAIN rec /\ rec["id"] # 0

\* list[0] ?? {}
FirstOrEmpty(list) == IF Len(list) > 0 THEN list[1] ELSE <<>>

\* only the owner record is kept when there is one
SpreadOwnerOnly(perm, user) == IF DOMAIN user # {} THEN user ELSE perm

\* { ...user, ...perm }: the overlay order swapped
SpreadPermWins(perm, user) ==
  [f \in DOMAIN perm \cup DOMAIN user |->
     IF f \in DOMAIN perm THEN perm[f] ELSE user[f]]

\* { ...perm, ...user }
Spread(perm, user) ==
  [f \in DOMAIN perm \cup DOMAIN user |->
     IF f \in DOMAIN user THEN user[f] ELSE perm[f]]

\* only the status code is recognised, not the permission-denied text
DeniedStatusOnly(msg) == Includes(msg, Txt401)

\* every client error of the 4xx family is taken for a denial
DeniedAny4xx(msg) == Includes(msg, <<"4">>) \/ Includes(msg, TxtAccessDenied)

\* catch (err) { if (!msg.includes("401") && !msg.includes("Access is denied")) throw err; }
Denied(msg) == Includes(msg, Txt401) \/ Includes(msg, TxtAccessDenied)

\* the emptiness test dropped: the merged object is returned in every case
MergeAutoLiqAlways(userList, permList) ==
  <<Spread(FirstOrEmpty(permList), FirstOrEmpty(userList))>>

\* the emptiness test with || for &&
MergeAutoLiqEitherMissing(userList, permList) ==
  LET perm == FirstOrEmpty(permList)
      user == FirstOrEmpty(userList)
  IN  IF ~HasId(perm) \/ ~HasId(user) THEN <<>> ELSE <<Spread(perm, user)>>

\* lines 90-100 of getAutoLiqSettings: merge the two lists
MergeAutoLiq(userList, permList) ==
  LET perm == FirstOrEmpty(permList)
      user == FirstOrEmpty(userList)
      merged == Spread(perm, user)
  IN  IF ~HasId(perm) /\ ~HasId(user) THEN <<>> ELSE <<merged>>

\* the list a lookup leaves in its variable: the body, or [] when denied
ListOf(out) == IF out.ok THEN out.body ELSE <<>>

\* getAutoLiqSettings as a function of the two lookup outcomes
getAutoLiqSettings(ownerOut, permOut) ==
  IF ~ownerOut.ok /\ ~Denied(ownerOut.message)
    THEN [ok |-> FALSE, message |-> ownerOut.message]
  ELSE IF ~permOut.ok /\ ~Denied(permOut.message)
    THEN [ok |-> FALSE, message |-> permOut.message]
  ELSE [ok |-> TRUE, value |-> MergeAutoLiq(ListOf(ownerOut), ListOf(permOut))]

(***************************************************************************)
(* Settings cache (node-cache instance of the cache module).               *)
(***************************************************************************)
\* `risk:${accountId}`
riskKey(accountId) == <<"risk:">> \o Digits(accountId)

\* an entry that expires the moment it is stored
CacheSetNoTtl(c, key, value, time) ==
  [k \in DOMAIN c \cup {key} |->
     IF k = key THEN [v |-> value, t |-> time, storedAt |-> time]
     ELSE c[k]]

\* cache.set(key, value): the entry expires stdTTL seconds after it is stored;
\* storedAt remembers when set() ran
CacheSet(c, key, value, time) ==
  [k \in DOMAIN c \cup {key} |->
     IF k = key THEN [v |-> value, t |-> time + stdTTL, storedAt |-> time]
     ELSE c[k]]

\* cache.del(key)
CacheDel(c, key) == [k \in DOMAIN c \ {key} |-> c[k]]

\* an entry is expired once its expiry time lies in the past
Expired(entry, time) == entry.t < time

\* a hit restarts the entry's time to live
CacheGetTouch(c, key, time) ==
  IF key \notin DOMAIN c THEN [value |-> Null, cache |-> c]
  ELSE IF Expired(c[key], time) THEN [value |-> Null, cache |-> CacheDel(c, key)]
  ELSE [value |-> Some(c[key].v),
        cache |-> [c EXCEPT ![key].t = time + stdTTL]]

\* cache.get(key): the value of a live entry; an expired entry is deleted
CacheGet(c, key, time) ==
  IF key \notin DOMAIN c THEN [value |-> Null, cache |-> c]
  ELSE IF Expired(c[key], time) THEN [value |-> Null, cache |-> CacheDel(c, key)]
  ELSE [value |-> Some(c[key].v), cache |-> c]

\* the lookup uses the bare account id as key
getCachedRiskBareKey(c, accountId, time) == CacheGet(c, Digits(accountId), time)

\* getCachedRisk(accountId)
getCachedRisk(c, accountId, time) == CacheGet(c, riskKey(accountId), time)

\* the entry is stored under the bare account id
setCachedRiskBareKey(c, accountId, settings, time) ==
  CacheSet(c, Digits(accountId), settings, time)

\* setCachedRisk(accountId, settings)
setCachedRisk(c, accountId, settings, time) ==
  CacheSet(c, riskKey(accountId), settings, time)

\* invalidateCachedRisk(accountId)
invalidateCachedRisk(c, accountId) == CacheDel(c, riskKey(accountId))

(***************************************************************************)
(* Settings write.                                                         *)
(***************************************************************************)
allowedFields ==
  << "dailyLossAutoLiq", "dailyProfitAutoLiq", "weeklyLossAutoLiq",
     "weeklyProfitAutoLiq", "dailyLossAlert", "dailyLossPercentageAlert",
     "marginPercentageAlert", "dailyLossLiqOnly", "dailyLossPercentageLiqOnly",
     "marginPercentageLiqOnly", "dailyLossPercentageAutoLiq",
     "marginPercentageAutoLiq" >>

\* only connectionRef is taken out of the payload
FilterSettingsDropRefOnly(payload) ==
  [f \in {k \in DOMAIN payload \ {"connectionRef"} : payload[k] # Null} |-> payload[f]]

\* the null test dropped: every allow-listed key of the payload is kept
FilterSettingsKeepNull(payload) ==
  LET keep == {allowedFields[i] : i \in 1..Len(allowedFields)}
      keys == {f \in keep : f \in DOMAIN payload}
  IN  [f \in keys |-> payload[f]]

\* for (const field of allowedFields) if (payload[field] != null) settings[field] = payload[field]
FilterSettings(payload) ==
  LET keep == {allowedFields[i] : i \in 1..Len(allowedFields)}
      keys == {f \in keep : f \in DOMAIN payload /\ payload[f] # Null}
  IN  [f \in keys |-> payload[f]]

\* const body = { accountId, ...settings }
UpdateBody(accountId, settings) ==
  [f \in {"accountId"} \cup DOMAIN settings |->
     IF f \in DOMAIN settings THEN settings[f] ELSE Some(accountId)]

\* JavaScript truthiness of result.errorText
HasErrorText(result) == "errorText" \in DOMAIN result /\ Len(result["errorText"]) > 0

\* the permissioned shape preferred to the owner shape
EntityOfPermFirst(result) ==
  IF "permissionedAccountAutoLiq" \in DOMAIN result
    THEN Some(result["permissionedAccountAutoLiq"])
  ELSE IF "userAccountAutoLiq" \in DOMAIN result THEN Some(result["userAccountAutoLiq"])
  ELSE Null

\* result.userAccountAutoLiq ?? result.permissionedAccountAutoLiq
EntityOf(result) ==
  IF "userAccountAutoLiq" \in DOMAIN result THEN Some(result["userAccountAutoLiq"])
  ELSE IF "permissionedAccountAutoLiq" \in DOMAIN result
         THEN Some(result["permissionedAccountAutoLiq"])
  ELSE Null

\* setAutoLiqSettings after the update call has returned `out`
setAutoLiqSettings(accountId, out) ==
  IF ~out.ok THEN [ok |-> FALSE, message |-> out.message]
  ELSE IF HasErrorText(out.body)
    THEN [ok |-> FALSE,
          message |-> <<"Failed to set auto-liq for account ">> \o Digits(accountId)
                        \o <<": ">> \o out.body["errorText"]]
  ELSE IF EntityOf(out.body) = Null
    THEN [ok |-> FALSE,
          message |-> <<"No auto-liq entity returned for account ">> \o Digits(accountId)]
  ELSE [ok |-> TRUE, value |-> EntityOf(out.body)[1]]

(***************************************************************************)
(* What the downstream API may answer.                                     *)
(***************************************************************************)
\* records the lookups may carry when one request is served at a time
GwRecords == RecordsOver({7}, {500, 1000}, {})

LookupOutcomes ==
  {Returned(<<>>)} \cup {Returned(<<rec>>) : rec \in GwRecords}
    \cup {Thrown(k) : k \in ErrorKinds}

UpdateEntities == {rec \in GwRecords : HasId(rec) /\ "dailyLossAutoLiq" \in DOMAIN rec}

ErrorTexts == {<<"Unsupported parameters">>, <<"Should be account owner">>}

UpdateResults ==
  {<<>>}
    \cup {[userAccountAutoLiq |-> rec] : rec \in UpdateEntities}
    \cup {[permissionedAccountAutoLiq |-> rec] : rec \in UpdateEntities}
    \cup {[errorText |-> txt] : txt \in ErrorTexts}
    \cup {[errorText |-> txt, userAccountAutoLiq |-> rec] :
            txt \in ErrorTexts, rec \in UpdateEntities}

UpdateOutcomes ==
  {Returned(res) : res \in UpdateResults} \cup {Thrown(k) : k \in ErrorKinds}

ListOutcomes == {Returned(<<>>)} \cup {Thrown(k) : k \in ErrorKinds}

\* request payloads of POST /risk/{accountId}
Payloads ==
  LET base == {[connectionRef |-> "TS-1"]}
      opt(S, k, V) == S \cup {[f \in DOMAIN s \cup {k} |->
                                 IF f = k THEN v ELSE s[f]] : s \in S, v \in V}
  IN  opt(opt(base, "dailyLossAutoLiq", {Null, Some(500)}),
          "dailyProfitAutoLiq", {Some(1000)})
        \cup {[connectionRef |-> "TS-1", doNotUnlock |-> Some(1)],
              [connectionRef |-> "TS-1", doNotUnlock |-> Some(1),
               dailyLossAutoLiq |-> Some(1000)]}

RequestsOver(accounts, payloads) ==
  {[kind |-> "GET", accountId |-> a, payload |-> <<>>] : a \in accounts}
    \cup {[kind |-> "POST", accountId |-> a, payload |-> p] : a \in accounts, p \in payloads}
    \cup {[kind |-> "ACCOUNTS", accountId |-> 0, payload |-> <<>>]}

Requests == RequestsOver(Accounts, Payloads)

\* the smaller world of the runs with concurrent requests: one account, two
\* records, one failure of each sort
ConcRequests ==
  RequestsOver({42}, {[connectionRef |-> "TS-1"],
                      [connectionRef |-> "TS-1", dailyLossAutoLiq |-> Some(500)]})
ConcLookupOutcomes ==
  {Returned(<<>>), Thrown("Unauthorized"), Thrown("NotFound")}
    \cup {Returned(<<rec>>) : rec \in UpdateEntities}
ConcUpdateOutcomes ==
  {Returned([errorText |-> <<"Unsupported parameters">>]), Thrown("Unauthorized")}
    \cup {Returned([userAccountAutoLiq |-> rec]) : rec \in UpdateEntities}
ConcListOutcomes == {Returned(<<>>), Thrown("Unauthorized")}

(***************************************************************************)
(* Responses.                                                              *)
(***************************************************************************)
NoReq == [kind |-> "none", accountId |-> 0, payload |-> <<>>]
NoResp == [status |-> 0, body |-> <<>>]
NoCredentials == [userId |-> Null, connectionRef |-> Null, tradovateAuth |-> Null]
NoObs == [look |-> "none", afterPost |-> FALSE, preWrite |-> FALSE,
          verifyOut |-> Null, storeOut |-> Null,
          ownerOut |-> Null, permOut |-> Null, updateOut |-> Null, listOut |-> Null]

Ok(body) == [status |-> 200, body |-> body]

TokenExpired ==
  [status |-> 401,
   body |-> [success |-> FALSE,
             error |-> <<"Tradovate token expired. Please reconnect.">>,
             code |-> "TOKEN_EXPIRED"]]

Failure(status, message) == [status |-> status, body |-> [success |-> FALSE, error |-> message]]

\* catch block of GET /risk-management/accounts and of GET /risk-management/risk/{accountId}
GetCatch(message) ==
  IF Denied(message) THEN TokenExpired ELSE Failure(500, message)

\* catch block of POST /risk-management/risk/{accountId}
PostCatch(message) ==
  IF Denied(message) THEN TokenExpired
  ELSE IF Includes(message, <<"Unsupported parameters">>)
    THEN [status |-> 400,
          body |-> [success |-> FALSE, error |-> message, code |-> "UNSUPPORTED_PARAMS"]]
  ELSE IF Includes(message, <<"Should be account owner">>)
    THEN [status |-> 403,
          body |-> [success |-> FALSE,
                    error |-> <<"Insufficient permissions. You are not the account owner.">>,
                    code |-> "NOT_OWNER"]]
  ELSE Failure(500, message)

NoValidParams ==
  Failure(400, <<"No valid risk parameters provided. Include at least one of: dailyLossAutoLiq, dailyProfitAutoLiq, etc.">>)

(***************************************************************************)
(* State machine of the gateway.                                           *)
(***************************************************************************)
Call(path, arg) == [path |-> path, arg |-> arg]

\* history: some request acted on the account, so its last write is no longer
\* the latest event
Touch(lp, accountId) == [lp EXCEPT ![accountId] = Null]

\* history: what the cache check of a read found in the map
LookOf(c, accountId, time) ==
  IF riskKey(accountId) \notin DOMAIN c THEN "absent"
  ELSE IF time - c[riskKey(accountId)].storedAt > stdTTL THEN "stale"
  ELSE "live"

InitGateway ==
  /\ now = 0
  /\ cache = <<>>
  /\ pc = [r \in Reqs |-> "idle"]
  /\ req = [r \in Reqs |-> NoReq]
  /\ userAutoLiq = [r \in Reqs |-> <<>>]
  /\ calls = [r \in Reqs |-> <<>>]
  /\ resp = [r \in Reqs |-> NoResp]
  /\ obs = [r \in Reqs |-> NoObs]
  /\ lastPost = [a \in Accounts |-> Null]
  /\ lastMiss = [a \in Accounts |-> Null]
  /\ callAuth = [r \in Reqs |-> <<>>]
  /\ preWriteKeys = {}
  /\ credentials = [r \in Reqs |-> NoCredentials]
  /\ contacts = [r \in Reqs |-> <<>>]

\* one client object held by the module and handed to every request
getAuthShared(r) ==
  LET built == {q \in Reqs : credentials[q].tradovateAuth # Null}
  IN  IF built = {} THEN Null ELSE credentials[CHOOSE q \in built : TRUE].tradovateAuth

\* const auth = getAuth(request): the client the auth scheme built for this request
getAuth(r) == credentials[r].tradovateAuth

\* an authenticated request reaches its route handler
Arrive(r, requests) ==
  /\ pc[r] = "idle"
  /\ \E q \in requests : req' = [req EXCEPT ![r] = q]
  /\ pc' = [pc EXCEPT ![r] = "handler"]
  /\ UNCHANGED <<now, cache, userAutoLiq, calls, callAuth, resp, obs, lastPost, lastMiss, preWriteKeys, credentials, contacts>>

\* GET /risk/{accountId}, lines 195-205: cache check, then the owner lookup is issued
GetRiskHandler(r) ==
  /\ pc[r] = "handler"
  /\ req[r].kind = "GET"
  /\ LET accountId == req[r].accountId
         got == getCachedRisk(cache, accountId, now)
     IN  /\ cache' = got.cache
         /\ obs' = [obs EXCEPT ![r].look = LookOf(cache, accountId, now),
                               ![r].afterPost = (lastPost[accountId] # Null)]
         /\ lastPost' = Touch(lastPost, accountId)
         /\ lastMiss' = Touch(lastMiss, accountId)
         /\ IF got.value # Null
              THEN /\ resp' = [resp EXCEPT ![r] =
                                 Ok([success |-> TRUE, autoLiq |-> got.value, cached |-> TRUE])]
                   /\ pc' = [pc EXCEPT ![r] = "done"]
                   /\ UNCHANGED <<calls, callAuth>>
              ELSE /\ calls' = [calls EXCEPT ![r] =
                                  Append(@, Call("/userAccountAutoLiq/deps",
                                                 [masterid |-> Digits(accountId)]))]
                   /\ callAuth' = [callAuth EXCEPT ![r] = Append(@, getAuth(r))]
                   /\ pc' = [pc EXCEPT ![r] = "owner"]
                   /\ UNCHANGED resp
  /\ UNCHANGED <<now, req, userAutoLiq, preWriteKeys, credentials, contacts>>

\* a failed owner lookup is issued once more
OwnerLookupReturnsRetry(r, outcomes) ==
  /\ pc[r] = "owner"
  /\ \E out \in outcomes :
       /\ obs' = [obs EXCEPT ![r].ownerOut = Some(out)]
       /\ IF ~out.ok /\ ~Denied(out.message)
            THEN /\ calls' = [calls EXCEPT ![r] =
                                Append(@, Call("/userAccountAutoLiq/deps",
                                               [masterid |-> Digits(req[r].accountId)]))]
                 /\ callAuth' = [callAuth EXCEPT ![r] = Append(@, getAuth(r))]
                 /\ UNCHANGED <<userAutoLiq, pc, resp>>
            ELSE /\ userAutoLiq' = [userAutoLiq EXCEPT ![r] = ListOf(out)]
                 /\ calls' = [calls EXCEPT ![r] =
                                Append(@, Call("/permissionedAccountAutoLiq/deps",
                                               [masterid |-> Digits(req[r].accountId)]))]
                 /\ callAuth' = [callAuth EXCEPT ![r] = Append(@, getAuth(r))]
                 /\ pc' = [pc EXCEPT ![r] = "perm"]
                 /\ UNCHANGED resp
  /\ lastPost' = Touch(lastPost, req[r].accountId)
  /\ lastMiss' = Touch(lastMiss, req[r].accountId)
  /\ UNCHANGED <<now, cache, req, preWriteKeys, credentials, contacts>>

\* the owner lookup returns (getAutoLiqSettings lines 63-81)
OwnerLookupReturns(r, outcomes) ==
  /\ pc[r] = "owner"
  /\ \E out \in outcomes :
       /\ obs' = [obs EXCEPT ![r].ownerOut = Some(out)]
       /\ IF ~out.ok /\ ~Denied(out.message)
            THEN /\ resp' = [resp EXCEPT ![r] = GetCatch(out.message)]
                 /\ pc' = [pc EXCEPT ![r] = "done"]
                 /\ UNCHANGED <<userAutoLiq, calls, callAuth>>
            ELSE /\ userAutoLiq' = [userAutoLiq EXCEPT ![r] = ListOf(out)]
                 /\ calls' = [calls EXCEPT ![r] =
                                Append(@, Call("/permissionedAccountAutoLiq/deps",
                                               [masterid |-> Digits(req[r].accountId)]))]
                 /\ callAuth' = [callAuth EXCEPT ![r] = Append(@, getAuth(r))]
                 /\ pc' = [pc EXCEPT ![r] = "perm"]
                 /\ UNCHANGED resp
  /\ lastPost' = Touch(lastPost, req[r].accountId)
  /\ lastMiss' = Touch(lastMiss, req[r].accountId)
  /\ UNCHANGED <<now, cache, req, preWriteKeys, credentials, contacts>>

\* the permissioned lookup returns (getAutoLiqSettings lines 82-100, handler lines 206-214)
PermLookupReturns(r, outcomes) ==
  /\ pc[r] = "perm"
  /\ \E out \in outcomes :
       /\ obs' = [obs EXCEPT ![r].permOut = Some(out)]
       /\ IF ~out.ok /\ ~Denied(out.message)
            THEN /\ resp' = [resp EXCEPT ![r] = GetCatch(out.message)]
                 /\ lastMiss' = Touch(lastMiss, req[r].accountId)
                 /\ UNCHANGED <<cache, preWriteKeys>>
            ELSE LET settings == MergeAutoLiq(userAutoLiq[r], ListOf(out))
                     autoLiq == IF Len(settings) > 0 THEN Some(settings[1]) ELSE Null
                     key == riskKey(req[r].accountId)
                 IN  /\ cache' = IF autoLiq # Null
                                   THEN setCachedRisk(cache, req[r].accountId, autoLiq[1], now)
                                   ELSE cache
                     /\ preWriteKeys' =
                          IF autoLiq = Null THEN preWriteKeys
                          ELSE IF obs[r].preWrite /\ Len(userAutoLiq[r]) > 0
                            THEN preWriteKeys \cup {key}
                            ELSE preWriteKeys \ {key}
                     /\ resp' = [resp EXCEPT ![r] =
                                   Ok([success |-> TRUE, autoLiq |-> autoLiq, cached |-> FALSE])]
                     /\ lastMiss' = [lastMiss EXCEPT ![req[r].accountId] =
                                       Some([autoLiq |-> autoLiq, at |-> now])]
  /\ pc' = [pc EXCEPT ![r] = "done"]
  /\ lastPost' = Touch(lastPost, req[r].accountId)
  /\ UNCHANGED <<now, req, userAutoLiq, calls, callAuth, credentials, contacts>>

\* the account's entry is invalidated before the update call is issued
PostRiskHandlerInvalidateFirst(r) ==
  /\ pc[r] = "handler"
  /\ req[r].kind = "POST"
  /\ cache' = invalidateCachedRisk(cache, req[r].accountId)
  /\ LET settings == FilterSettings(req[r].payload)
     IN  IF DOMAIN settings = {}
           THEN /\ resp' = [resp EXCEPT ![r] = NoValidParams]
                /\ pc' = [pc EXCEPT ![r] = "done"]
                /\ UNCHANGED <<calls, callAuth>>
           ELSE /\ calls' = [calls EXCEPT ![r] =
                               Append(@, Call("/userAccountAutoLiq/updateuserautoliq",
                                              UpdateBody(req[r].accountId, settings)))]
                /\ callAuth' = [callAuth EXCEPT ![r] = Append(@, getAuth(r))]
                /\ pc' = [pc EXCEPT ![r] = "update"]
                /\ UNCHANGED resp
  /\ lastPost' = Touch(lastPost, req[r].accountId)
  /\ lastMiss' = Touch(lastMiss, req[r].accountId)
  /\ UNCHANGED <<now, req, userAutoLiq, obs, preWriteKeys, credentials, contacts>>

\* POST /risk/{accountId}, lines 311-343: allow-list filter, validation, update call issued
PostRiskHandler(r) ==
  /\ pc[r] = "handler"
  /\ req[r].kind = "POST"
  /\ LET settings == FilterSettings(req[r].payload)
     IN  IF DOMAIN settings = {}
           THEN /\ resp' = [resp EXCEPT ![r] = NoValidParams]
                /\ pc' = [pc EXCEPT ![r] = "done"]
                /\ UNCHANGED <<calls, callAuth>>
           ELSE /\ calls' = [calls EXCEPT ![r] =
                               Append(@, Call("/userAccountAutoLiq/updateuserautoliq",
                                              UpdateBody(req[r].accountId, settings)))]
                /\ callAuth' = [callAuth EXCEPT ![r] = Append(@, getAuth(r))]
                /\ pc' = [pc EXCEPT ![r] = "update"]
                /\ UNCHANGED resp
  /\ lastPost' = Touch(lastPost, req[r].accountId)
  /\ lastMiss' = Touch(lastMiss, req[r].accountId)
  /\ UNCHANGED <<now, cache, req, userAutoLiq, obs, preWriteKeys, credentials, contacts>>

\* the update call returns (setAutoLiqSettings lines 135-152, handler lines 345-374)
UpdateReturns(r, outcomes) ==
  /\ pc[r] = "update"
  /\ \E out \in outcomes :
       LET result == setAutoLiqSettings(req[r].accountId, out)
           accountId == req[r].accountId
       IN  /\ obs' = [q \in Reqs |->
                       IF q = r THEN [obs[q] EXCEPT !.updateOut = Some(out)]
                       ELSE IF result.ok /\ pc[q] = "perm" /\ req[q].accountId = accountId
                         THEN [obs[q] EXCEPT !.preWrite = TRUE]
                         ELSE obs[q]]
           /\ preWriteKeys' = IF result.ok THEN preWriteKeys \ {riskKey(accountId)}
                              ELSE preWriteKeys
           /\ IF result.ok
                THEN /\ cache' = setCachedRisk(invalidateCachedRisk(cache, accountId),
                                               accountId, result.value, now)
                     /\ resp' = [resp EXCEPT ![r] =
                                   Ok([success |-> TRUE, autoLiq |-> Some(result.value)])]
                     /\ lastPost' = [lastPost EXCEPT ![accountId] =
                                       Some([rec |-> result.value, at |-> now])]
                     /\ lastMiss' = Touch(lastMiss, accountId)
                ELSE /\ resp' = [resp EXCEPT ![r] = PostCatch(result.message)]
                     /\ lastPost' = Touch(lastPost, accountId)
                     /\ lastMiss' = Touch(lastMiss, accountId)
                     /\ UNCHANGED cache
  /\ pc' = [pc EXCEPT ![r] = "done"]
  /\ UNCHANGED <<now, req, userAutoLiq, calls, callAuth, credentials, contacts>>

\* GET /accounts, lines 132-134: the account listing is issued
AccountsHandler(r) ==
  /\ pc[r] = "handler"
  /\ req[r].kind = "ACCOUNTS"
  /\ calls' = [calls EXCEPT ![r] = Append(@, Call("/account/list", <<>>))]
  /\ callAuth' = [callAuth EXCEPT ![r] = Append(@, getAuth(r))]
  /\ pc' = [pc EXCEPT ![r] = "list"]
  /\ UNCHANGED <<now, cache, req, userAutoLiq, resp, obs, lastPost, lastMiss, preWriteKeys, credentials, contacts>>

\* the account listing returns (lines 135-144)
ListReturns(r, outcomes) ==
  /\ pc[r] = "list"
  /\ \E out \in outcomes :
       /\ obs' = [obs EXCEPT ![r].listOut = Some(out)]
       /\ resp' = [resp EXCEPT ![r] =
                     IF out.ok THEN Ok([success |-> TRUE, accounts |-> out.body])
                     ELSE GetCatch(out.message)]
  /\ pc' = [pc EXCEPT ![r] = "done"]
  /\ UNCHANGED <<now, cache, req, userAutoLiq, calls, callAuth, lastPost, lastMiss, preWriteKeys, credentials, contacts>>

\* the response has been sent; the request's locals are discarded
Finish(r) ==
  /\ pc[r] = "done"
  /\ pc' = [pc EXCEPT ![r] = "idle"]
  /\ req' = [req EXCEPT ![r] = NoReq]
  /\ userAutoLiq' = [userAutoLiq EXCEPT ![r] = <<>>]
  /\ calls' = [calls EXCEPT ![r] = <<>>]
  /\ callAuth' = [callAuth EXCEPT ![r] = <<>>]
  /\ resp' = [resp EXCEPT ![r] = NoResp]
  /\ obs' = [obs EXCEPT ![r] = NoObs]
  /\ credentials' = [credentials EXCEPT ![r] = NoCredentials]
  /\ contacts' = [contacts EXCEPT ![r] = <<>>]
  /\ UNCHANGED <<now, cache, lastPost, lastMiss, preWriteKeys>>

\* time passes
Tick ==
  /\ now + ClockStep <= MaxNow
  /\ now' = now + ClockStep
  /\ UNCHANGED <<cache, pc, req, userAutoLiq, calls, callAuth, resp, obs, lastPost, lastMiss, preWriteKeys, credentials, contacts>>

\* node-cache's periodic sweep (checkperiod): expired entries are deleted
CheckData ==
  /\ \E k \in DOMAIN cache : Expired(cache[k], now)
  /\ cache' = [k \in {x \in DOMAIN cache : ~Expired(cache[x], now)} |-> cache[k]]
  /\ UNCHANGED <<now, pc, req, userAutoLiq, calls, callAuth, resp, obs, lastPost, lastMiss, preWriteKeys, credentials, contacts>>

(***************************************************************************)
(* The auth scheme "firebase-tradovate" and the routes' input validation.  *)
(* A header value is a text whose scheme prefix ("Bearer ") is one token.  *)
(***************************************************************************)
TxtBearer == "Bearer "
DemoUrl == <<"https://demo.tradovateapi.com">>
TxtV1 == <<"/v1">>

\* what verifyIdToken answers: the decoded token, or an error with its message
Verified(uid) == [ok |-> TRUE, uid |-> uid]
VerifyFailed(message) == [ok |-> FALSE, message |-> message]
VerifyOutcomes ==
  {Verified("u1")}
    \cup {VerifyFailed(m) : m \in {<<"Firebase ID token has expired", ". Get a fresh ID token">>,
                                   <<"Decoding Firebase", " ID token failed">>,
                                   <<"Firebase ID token has invalid signature">>,
                                   <<"Error fetching public keys for Google certs">>,
                                   <<"Authentication failed">>}}

\* what the tdv_access_token query answers: { data, error }
StoreRows ==
  {[token |-> tok, url |-> url] :
     tok \in {Null, Some(""), Some("tdv-token-A")},
     url \in {Null, Some(DemoUrl), Some(<<"https://live.tradovateapi.com">> \o TxtV1),
              Some(<<"https://live.tradovateapi.com">> \o TxtV1 \o <<"/">>)}}
StoreAnswers ==
  {[data |-> Some(row), error |-> Null] : row \in StoreRows}
    \cup {[data |-> Null, error |-> Null],
          [data |-> Null, error |-> Some(<<"JSON object requested, multiple (or no) rows returned">>)]}

\* !data.token
Falsy(tok) == tok = Null \/ tok[1] = ""

\* getConnectionToken of ./supabase, the one the auth scheme imports
getConnectionToken(userId, connectionRef, answer) ==
  IF answer.error # Null \/ answer.data = Null
    THEN [ok |-> FALSE,
          message |-> <<"No Tradovate token found", " for user ", userId,
                        ", connection ", connectionRef>>
                      \o (IF answer.error # Null THEN <<": ">> \o answer.error[1] ELSE <<>>)]
  ELSE IF Falsy(answer.data[1].token)
    THEN [ok |-> FALSE,
          message |-> <<"Token is empty", " for user ", userId, ", connection ", connectionRef>>]
    ELSE [ok |-> TRUE,
          value |-> [token |-> answer.data[1].token[1],
                     url |-> IF answer.data[1].url # Null THEN answer.data[1].url[1] ELSE DemoUrl]]

\* url.endsWith("/v1")
EndsWith(txt, suffix) ==
  /\ Len(txt) >= Len(suffix)
  /\ SubSeq(txt, Len(txt) - Len(suffix) + 1, Len(txt)) = suffix

\* the version segment appended without looking
BaseUrlAlways(url) == url \o TxtV1

\* const baseUrl = connection.url.endsWith("/v1") ? connection.url : `${connection.url}/v1`
BaseUrl(url) == IF EndsWith(url, TxtV1) THEN url ELSE url \o TxtV1

\* TradovateAuth.fromToken(baseUrl, token): a client object, no network call
FromToken(baseUrl, token) == [baseUrl |-> baseUrl, token |-> token]

\* a missing connectionRef replaced by a default one
ConnectionRefOfDefault(payload, query, xConnectionRef) ==
  IF payload # Null /\ "connectionRef" \in DOMAIN payload THEN Some(payload["connectionRef"])
  ELSE IF "connectionRef" \in DOMAIN query THEN Some(query["connectionRef"])
  ELSE IF xConnectionRef # Null THEN xConnectionRef
  ELSE Some("TS-1")

\* payload?.connectionRef ?? request.query.connectionRef ?? request.headers["x-connection-ref"]
ConnectionRefOf(payload, query, xConnectionRef) ==
  IF payload # Null /\ "connectionRef" \in DOMAIN payload THEN Some(payload["connectionRef"])
  ELSE IF "connectionRef" \in DOMAIN query THEN Some(query["connectionRef"])
  ELSE xConnectionRef

\* the auth scheme runs before the route's payload is read and parsed:
\* request.payload is null inside authenticate
PayloadAtAuth(q) == Null

\* h.response({ error }).code(status).takeover()
AuthFailure(status, message) == [status |-> status, body |-> [error |-> message]]

\* unrecognised errors answered 500
AuthCatchUnknown500(message) ==
  IF \/ Includes(message, <<"Firebase ID token has expired">>)
     \/ Includes(message, <<"Decoding Firebase">>)
    THEN AuthFailure(401, <<"Invalid or expired auth token">>)
  ELSE IF Includes(message, <<"No Tradovate token found">>)
    THEN AuthFailure(404, message)
    ELSE AuthFailure(500, message)

\* the catch block of authenticate, lines 188-199
AuthCatch(message) ==
  IF \/ Includes(message, <<"Firebase ID token has expired">>)
     \/ Includes(message, <<"Decoding Firebase">>)
    THEN AuthFailure(401, <<"Invalid or expired auth token">>)
  ELSE IF Includes(message, <<"No Tradovate token found">>)
    THEN AuthFailure(404, message)
    ELSE AuthFailure(401, message)

\* the keys the POST payload schema declares besides connectionRef
SchemaFields == {allowedFields[i] : i \in 1..Len(allowedFields)}

\* the routes' validate blocks: connectionRef is required in the query of the
\* two GET routes and in the payload of the POST route, whose other keys are
\* optional numbers
ValidInput(q) ==
  IF q.kind \in {"GET", "ACCOUNTS"}
    THEN DOMAIN q.query = {"connectionRef"}
    ELSE /\ "connectionRef" \in DOMAIN q.payload
         /\ DOMAIN q.payload \subseteq {"connectionRef"} \cup SchemaFields
         /\ \A k \in DOMAIN q.payload \ {"connectionRef"} : q.payload[k] # Null

\* the framework's answer to input that fails a validate block
ValidationFailure ==
  [status |-> 400,
   body |-> [statusCode |-> 400, error |-> <<"Bad Request">>,
             message |-> <<"Invalid request input">>]]

AuthHeaders ==
  {Null, Some(<<"Basic ", "dXNlcjpwdw==">>), Some(<<TxtBearer>>), Some(<<TxtBearer, "id-token">>)}

AuthPayloads ==
  {[dailyLossAutoLiq |-> Some(500)],
   [connectionRef |-> "TS-1", dailyLossAutoLiq |-> Some(500)],
   [connectionRef |-> "TS-1"]}

\* requests as they come off the wire
AuthRequests ==
  {[kind |-> k, accountId |-> 42, payload |-> Null, authorization |-> a,
    query |-> q, xConnectionRef |-> x] :
     k \in {"GET", "ACCOUNTS"}, a \in AuthHeaders,
     q \in {<<>>, [connectionRef |-> "TS-1"]}, x \in {Null, Some("TS-1")}}
  \cup
  {[kind |-> "POST", accountId |-> 42, payload |-> p, authorization |-> a,
    query |-> q, xConnectionRef |-> x] :
     p \in AuthPayloads, a \in AuthHeaders,
     q \in {<<>>, [connectionRef |-> "TS-1"]}, x \in {Null, Some("TS-1")}}

\* a request for a protected route arrives
Receive(r, requests) ==
  /\ pc[r] = "idle"
  /\ \E q \in requests : req' = [req EXCEPT ![r] = q]
  /\ pc' = [pc EXCEPT ![r] = "auth"]
  /\ UNCHANGED <<now, cache, userAutoLiq, calls, callAuth, resp, obs, lastPost, lastMiss, preWriteKeys,
                 credentials, contacts>>

\* the credential store is asked before the identity token is verified
AuthenticateStoreFirst(r) ==
  /\ pc[r] = "auth"
  /\ LET authHeader == req[r].authorization
     IN  IF authHeader = Null \/ authHeader[1][1] # TxtBearer \/ Tail(authHeader[1]) = <<>>
           THEN /\ resp' = [resp EXCEPT ![r] =
                              AuthFailure(401, <<"Missing Authorization: Bearer <firebase_id_token>">>)]
                /\ pc' = [pc EXCEPT ![r] = "done"]
                /\ UNCHANGED contacts
           ELSE /\ contacts' = [contacts EXCEPT ![r] = <<"getConnectionToken", "verifyAuthToken">>]
                /\ pc' = [pc EXCEPT ![r] = "verify"]
                /\ UNCHANGED resp
  /\ UNCHANGED <<now, cache, req, userAutoLiq, calls, callAuth, obs, lastPost, lastMiss, preWriteKeys, credentials>>

\* authenticate, lines 133-151: the header checks, then verifyAuthToken is called
Authenticate(r) ==
  /\ pc[r] = "auth"
  /\ LET authHeader == req[r].authorization
     IN  IF authHeader = Null \/ authHeader[1][1] # TxtBearer
           THEN /\ resp' = [resp EXCEPT ![r] =
                              AuthFailure(401, <<"Missing Authorization: Bearer <firebase_id_token>">>)]
                /\ pc' = [pc EXCEPT ![r] = "done"]
                /\ UNCHANGED contacts
         ELSE IF Tail(authHeader[1]) = <<>>
           THEN /\ resp' = [resp EXCEPT ![r] = AuthFailure(401, <<"Empty auth token">>)]
                /\ pc' = [pc EXCEPT ![r] = "done"]
                /\ UNCHANGED contacts
           ELSE /\ contacts' = [contacts EXCEPT ![r] = Append(@, "verifyAuthToken")]
                /\ pc' = [pc EXCEPT ![r] = "verify"]
                /\ UNCHANGED resp
  /\ UNCHANGED <<now, cache, req, userAutoLiq, calls, callAuth, obs, lastPost, lastMiss, preWriteKeys, credentials>>

\* verifyAuthToken returns; lines 152-174: connectionRef is resolved and
\* getConnectionToken is called
VerifyReturns(r, outcomes) ==
  /\ pc[r] = "verify"
  /\ \E out \in outcomes :
       /\ obs' = [obs EXCEPT ![r].verifyOut = Some(out)]
       /\ IF ~out.ok
            THEN /\ resp' = [resp EXCEPT ![r] = AuthCatch(out.message)]
                 /\ pc' = [pc EXCEPT ![r] = "done"]
                 /\ UNCHANGED <<credentials, contacts>>
            ELSE LET connectionRef == ConnectionRefOf(PayloadAtAuth(req[r]), req[r].query,
                                                      req[r].xConnectionRef)
                 IN  IF connectionRef = Null
                       THEN /\ resp' = [resp EXCEPT ![r] =
                                  AuthFailure(400, <<"Missing connectionRef (in payload, query param, or X-Connection-Ref header)">>)]
                            /\ pc' = [pc EXCEPT ![r] = "done"]
                            /\ UNCHANGED <<credentials, contacts>>
                       ELSE /\ credentials' = [credentials EXCEPT ![r].userId = Some(out.uid),
                                                                  ![r].connectionRef = connectionRef]
                            /\ contacts' = [contacts EXCEPT ![r] = Append(@, "getConnectionToken")]
                            /\ pc' = [pc EXCEPT ![r] = "lookup"]
                            /\ UNCHANGED resp
  /\ UNCHANGED <<now, cache, req, userAutoLiq, calls, callAuth, lastPost, lastMiss, preWriteKeys>>

\* getConnectionToken returns; lines 175-186: the client is built and the
\* request is authenticated
StoreReturns(r, answers) ==
  /\ pc[r] = "lookup"
  /\ \E answer \in answers :
       LET connection == getConnectionToken(credentials[r].userId[1],
                                            credentials[r].connectionRef[1], answer)
       IN  /\ obs' = [obs EXCEPT ![r].storeOut = Some(answer)]
           /\ IF ~connection.ok
                THEN /\ resp' = [resp EXCEPT ![r] = AuthCatch(connection.message)]
                     /\ pc' = [pc EXCEPT ![r] = "done"]
                     /\ UNCHANGED <<credentials, contacts>>
                ELSE /\ credentials' =
                          [credentials EXCEPT ![r].tradovateAuth =
                             Some(FromToken(BaseUrl(connection.value.url), connection.value.token))]
                     /\ contacts' = [contacts EXCEPT ![r] = Append(@, "TradovateAuth.fromToken")]
                     /\ pc' = [pc EXCEPT ![r] = "validate"]
                     /\ UNCHANGED resp
  /\ UNCHANGED <<now, cache, req, userAutoLiq, calls, callAuth, lastPost, lastMiss, preWriteKeys>>

\* the route's validate block is applied to the authenticated request
ValidateInput(r) ==
  /\ pc[r] = "validate"
  /\ IF ValidInput(req[r])
       THEN /\ pc' = [pc EXCEPT ![r] = "handler"]
            /\ UNCHANGED resp
       ELSE /\ resp' = [resp EXCEPT ![r] = ValidationFailure]
            /\ pc' = [pc EXCEPT ![r] = "done"]
  /\ UNCHANGED <<now, cache, req, userAutoLiq, calls, callAuth, obs, lastPost, lastMiss, preWriteKeys,
                 credentials, contacts>>

InitMergeIdle ==
  /\ mOwner = Returned(<<>>)
  /\ mPerm = Returned(<<>>)
  /\ mResult = [state |-> "unused"]

InitWriteIdle ==
  /\ wAccountId = 0
  /\ wOut = Returned(<<>>)
  /\ wResult = [state |-> "unused"]

InitWireIdle ==
  /\ inflight = [r \in Reqs |-> Null]
  /\ applied = [a \in Accounts |-> Null]

Init == InitGateway /\ InitMergeIdle /\ InitWriteIdle /\ InitWireIdle

\* concurrent requests for one account
Next ==
  \/ \E r \in Reqs : Arrive(r, ConcRequests) /\ UNCHANGED otherVars
  \/ \E r \in Reqs : GetRiskHandler(r) /\ UNCHANGED otherVars
  \/ \E r \in Reqs : OwnerLookupReturns(r, ConcLookupOutcomes) /\ UNCHANGED otherVars
  \/ \E r \in Reqs : PermLookupReturns(r, ConcLookupOutcomes) /\ UNCHANGED otherVars
  \/ \E r \in Reqs : PostRiskHandler(r) /\ UNCHANGED otherVars
  \/ \E r \in Reqs : UpdateReturns(r, ConcUpdateOutcomes) /\ UNCHANGED otherVars
  \/ \E r \in Reqs : AccountsHandler(r) /\ UNCHANGED otherVars
  \/ \E r \in Reqs : ListReturns(r, ConcListOutcomes) /\ UNCHANGED otherVars
  \/ \E r \in Reqs : Finish(r) /\ UNCHANGED otherVars
  \/ Tick /\ UNCHANGED otherVars
  \/ CheckData /\ UNCHANGED otherVars

Spec == Init /\ [][Next]_vars

\* one request at a time, every account, every answer of the downstream API
NextSeq ==
  \/ \E r \in SeqReqs : Arrive(r, Requests) /\ UNCHANGED otherVars
  \/ \E r \in SeqReqs : GetRiskHandler(r) /\ UNCHANGED otherVars
  \/ \E r \in SeqReqs : OwnerLookupReturns(r, LookupOutcomes) /\ UNCHANGED otherVars
  \/ \E r \in SeqReqs : PermLookupReturns(r, LookupOutcomes) /\ UNCHANGED otherVars
  \/ \E r \in SeqReqs : PostRiskHandler(r) /\ UNCHANGED otherVars
  \/ \E r \in SeqReqs : UpdateReturns(r, UpdateOutcomes) /\ UNCHANGED otherVars
  \/ \E r \in SeqReqs : AccountsHandler(r) /\ UNCHANGED otherVars
  \/ \E r \in SeqReqs : ListReturns(r, ListOutcomes) /\ UNCHANGED otherVars
  \/ \E r \in SeqReqs : Finish(r) /\ UNCHANGED otherVars
  \/ Tick /\ UNCHANGED otherVars
  \/ CheckData /\ UNCHANGED otherVars

SpecSeq == Init /\ [][NextSeq]_vars

\* one request at a time through the auth scheme, validation and its handler
NextAuth ==
  \/ \E r \in SeqReqs : Receive(r, AuthRequests) /\ UNCHANGED otherVars
  \/ \E r \in SeqReqs : Authenticate(r) /\ UNCHANGED otherVars
  \/ \E r \in SeqReqs : VerifyReturns(r, VerifyOutcomes) /\ UNCHANGED otherVars
  \/ \E r \in SeqReqs : StoreReturns(r, StoreAnswers) /\ UNCHANGED otherVars
  \/ \E r \in SeqReqs : ValidateInput(r) /\ UNCHANGED otherVars
  \/ \E r \in SeqReqs : GetRiskHandler(r) /\ UNCHANGED otherVars
  \/ \E r \in SeqReqs : OwnerLookupReturns(r, ConcLookupOutcomes) /\ UNCHANGED otherVars
  \/ \E r \in SeqReqs : PermLookupReturns(r, ConcLookupOutcomes) /\ UNCHANGED otherVars
  \/ \E r \in SeqReqs : PostRiskHandler(r) /\ UNCHANGED otherVars
  \/ \E r \in SeqReqs : UpdateReturns(r, ConcUpdateOutcomes) /\ UNCHANGED otherVars
  \/ \E r \in SeqReqs : AccountsHandler(r) /\ UNCHANGED otherVars
  \/ \E r \in SeqReqs : ListReturns(r, ConcListOutcomes) /\ UNCHANGED otherVars
  \/ \E r \in SeqReqs : Finish(r) /\ UNCHANGED otherVars

SpecAuth == Init /\ [][NextAuth]_vars

(***************************************************************************)
(* getAutoLiqSettings on its own: every pair of lookup outcomes.           *)
(***************************************************************************)
MergeRecords == RecordsOver({0, 7}, {500, 1000}, {1000})

MergeOutcomes ==
  {Returned(<<>>)} \cup {Returned(<<rec>>) : rec \in MergeRecords}
    \cup {Returned(<<[id |-> 7, dailyLossAutoLiq |-> 500], [id |-> 7, dailyLossAutoLiq |-> 1000]>>)}
    \cup {Thrown(k) : k \in ErrorKinds}

InitMerge ==
  /\ InitGateway /\ InitWriteIdle /\ InitWireIdle
  /\ mOwner \in MergeOutcomes
  /\ mPerm \in MergeOutcomes
  /\ mResult = [state |-> "pending"]

\* const settings = await getAutoLiqSettings(auth, accountId)
MergeCall ==
  /\ mResult.state = "pending"
  /\ mResult' = [state |-> "returned", result |-> getAutoLiqSettings(mOwner, mPerm)]
  /\ UNCHANGED <<mOwner, mPerm>>
  /\ UNCHANGED <<gatewayVars, writeVars, wireVars>>

NextMerge == MergeCall

SpecMerge == InitMerge /\ [][NextMerge]_vars

(***************************************************************************)
(* Two callers, two connections: concurrent requests that come in with     *)
(* different identities and connection references.                         *)
(***************************************************************************)
\* the subject verifyIdToken decodes from an identity token
SubjectOf(idToken) == IF idToken = <<"id-token">> THEN "u1" ELSE "u2"

\* the tdv_access_token table: one row per (user_id, connection_ref)
TokenTable(userId, connectionRef) ==
  CASE userId = "u1" /\ connectionRef = "TS-1" ->
         [data |-> Some([token |-> Some("tdv-token-A"), url |-> Some(DemoUrl)]), error |-> Null]
    [] userId = "u1" /\ connectionRef = "TS-2" ->
         [data |-> Some([token |-> Some("tdv-token-B"),
                         url |-> Some(<<"https://live.tradovateapi.com">> \o TxtV1)]),
          error |-> Null]
    [] userId = "u2" /\ connectionRef = "TS-1" ->
         [data |-> Some([token |-> Some("tdv-token-C"), url |-> Null]), error |-> Null]
    [] OTHER ->
         [data |-> Null,
          error |-> Some(<<"JSON object requested, multiple (or no) rows returned">>)]

\* the delegated credentials the downstream API denies for account 42, at the
\* owner source and at the permissioned source alike
DeniedTokens == {"tdv-token-B"}

CredRequests ==
  {[kind |-> "GET", accountId |-> 42, payload |-> Null, authorization |-> Some(<<TxtBearer, t>>),
    query |-> [connectionRef |-> c], xConnectionRef |-> Null] :
     t \in {"id-token", "id-token-2"}, c \in {"TS-1", "TS-2"}}
  \cup
  {[kind |-> "POST", accountId |-> 42,
    payload |-> [connectionRef |-> c, dailyLossAutoLiq |-> Some(500)],
    authorization |-> Some(<<TxtBearer, t>>), query |-> <<>>, xConnectionRef |-> Some(c)] :
     t \in {"id-token", "id-token-2"}, c \in {"TS-1", "TS-2"}}

\* verifyIdToken decodes the subject of the presented token
CredVerify(r) == {Verified(SubjectOf(Tail(req[r].authorization[1])))}

\* the store answers with the row of the request's (subject, connectionRef)
CredStore(r) == {TokenTable(credentials[r].userId[1], credentials[r].connectionRef[1])}

\* the downstream API answers a call by the token the call carries
CredLookup(r) ==
  IF callAuth[r][Len(callAuth[r])][1].token \in DeniedTokens
    THEN {Thrown("Unauthorized"), Thrown("AccessDenied")}
    ELSE {Returned(<<>>), Returned(<<[id |-> 7, dailyLossAutoLiq |-> 500]>>)}

CredUpdate(r) ==
  IF callAuth[r][Len(callAuth[r])][1].token \in DeniedTokens
    THEN {Thrown("Unauthorized")}
    ELSE {Returned([userAccountAutoLiq |-> [id |-> 7, dailyLossAutoLiq |-> 500]])}

NextCred ==
  \/ \E r \in Reqs : Receive(r, CredRequests) /\ UNCHANGED otherVars
  \/ \E r \in Reqs : Authenticate(r) /\ UNCHANGED otherVars
  \/ \E r \in Reqs : VerifyReturns(r, CredVerify(r)) /\ UNCHANGED otherVars
  \/ \E r \in Reqs : StoreReturns(r, CredStore(r)) /\ UNCHANGED otherVars
  \/ \E r \in Reqs : ValidateInput(r) /\ UNCHANGED otherVars
  \/ \E r \in Reqs : GetRiskHandler(r) /\ UNCHANGED otherVars
  \/ \E r \in Reqs : OwnerLookupReturns(r, CredLookup(r)) /\ UNCHANGED otherVars
  \/ \E r \in Reqs : PermLookupReturns(r, CredLookup(r)) /\ UNCHANGED otherVars
  \/ \E r \in Reqs : PostRiskHandler(r) /\ UNCHANGED otherVars
  \/ \E r \in Reqs : UpdateReturns(r, CredUpdate(r)) /\ UNCHANGED otherVars
  \/ \E r \in Reqs : Finish(r) /\ UNCHANGED otherVars

SpecCred == Init /\ [][NextCred]_vars

(***************************************************************************)
(* Overlapping writes: the downstream API applies an update when the call  *)
(* reaches it, and its answer reaches the gateway some time later.         *)
(***************************************************************************)
WriteRequests ==
  {[kind |-> "POST", accountId |-> 42,
    payload |-> [connectionRef |-> "TS-1", dailyLossAutoLiq |-> Some(v)]] : v \in {500, 1000}}

\* what the downstream API may answer to the update call of request r: the
\* entity as updated with the body's value, a refusal, or a rejected credential
AnswersToUpdate(r) ==
  {Returned([userAccountAutoLiq |->
               [id |-> 7, dailyLossAutoLiq |-> calls[r][1].arg["dailyLossAutoLiq"][1]]]),
   Returned([errorText |-> <<"Unsupported parameters">>]),
   Thrown("Unauthorized")}

\* the update call of request r reaches the downstream API, which applies it
\* (or refuses) and sends its answer
DownstreamApplies(r) ==
  /\ pc[r] = "update"
  /\ inflight[r] = Null
  /\ \E out \in AnswersToUpdate(r) :
       /\ inflight' = [inflight EXCEPT ![r] = Some(out)]
       /\ applied' = IF out.ok /\ "userAccountAutoLiq" \in DOMAIN out.body
                       THEN [applied EXCEPT ![req[r].accountId] =
                               Some(out.body["userAccountAutoLiq"])]
                       ELSE applied
  /\ UNCHANGED <<gatewayVars, mergeVars, writeVars>>

\* the answer reaches the gateway: await auth.post(...) resumes
UpdateArrives(r) ==
  /\ inflight[r] # Null
  /\ UpdateReturns(r, {inflight[r][1]})
  /\ inflight' = [inflight EXCEPT ![r] = Null]
  /\ UNCHANGED <<applied, mergeVars, writeVars>>

NextWrites ==
  \/ \E r \in Reqs : Arrive(r, WriteRequests) /\ UNCHANGED otherVars
  \/ \E r \in Reqs : PostRiskHandler(r) /\ UNCHANGED otherVars
  \/ \E r \in Reqs : DownstreamApplies(r)
  \/ \E r \in Reqs : UpdateArrives(r)
  \/ \E r \in Reqs : Finish(r) /\ UNCHANGED otherVars

SpecWrites == Init /\ [][NextWrites]_vars

(***************************************************************************)
(* setAutoLiqSettings on its own: every account and every answer of the    *)
(* update call.                                                            *)
(***************************************************************************)
WriteEntities == {[id |-> 7, dailyLossAutoLiq |-> 500], [id |-> 8, dailyLossAutoLiq |-> 1000]}

\* update responses: errorText absent, empty or set; each entity shape absent or present
WriteResults ==
  LET opt(S, k, V) == S \cup {[f \in DOMAIN s \cup {k} |->
                                 IF f = k THEN v ELSE s[f]] : s \in S, v \in V}
  IN  opt(opt(opt({<<>>}, "errorText", {<<>>} \cup ErrorTexts),
              "userAccountAutoLiq", WriteEntities),
          "permissionedAccountAutoLiq", WriteEntities)

WriteOutcomes ==
  {Returned(res) : res \in WriteResults} \cup {Thrown(k) : k \in ErrorKinds}

InitWrite ==
  /\ InitGateway /\ InitMergeIdle /\ InitWireIdle
  /\ wAccountId \in Accounts
  /\ wOut \in WriteOutcomes
  /\ wResult = [state |-> "pending"]

\* const result = await setAutoLiqSettings(auth, accountId, settings)
SetCall ==
  /\ wResult.state = "pending"
  /\ wResult' = [state |-> "returned", result |-> setAutoLiqSettings(wAccountId, wOut)]
  /\ UNCHANGED <<wAccountId, wOut>>
  /\ UNCHANGED <<gatewayVars, mergeVars, wireVars>>

NextWrite == SetCall

SpecWrite == InitWrite /\ [][NextWrite]_vars

(***************************************************************************)
(* Properties.                                                             *)
(***************************************************************************)
TypeOK ==
  /\ now \in 0..MaxNow
  /\ \A r \in Reqs : pc[r] \in {"idle", "auth", "verify", "lookup", "validate", "handler",
                               "owner", "perm", "update", "list", "done"}

\* the step in which request r runs the first part of the GET /risk handler
GetStep(r) == pc[r] = "handler" /\ req[r].kind = "GET" /\ pc'[r] # "handler"

\* the step in which request r runs the first part of the POST /risk handler
PostStep(r) == pc[r] = "handler" /\ req[r].kind = "POST" /\ pc'[r] # "handler"

HitResponse(rec) == Ok([success |-> TRUE, autoLiq |-> Some(rec), cached |-> TRUE])
MissResponse(autoLiq) == Ok([success |-> TRUE, autoLiq |-> autoLiq, cached |-> FALSE])

IsCachedResponse(rsp) ==
  rsp.status = 200 /\ "cached" \in DOMAIN rsp.body /\ rsp.body["cached"]

\* C1: when a POST for account A has answered successfully and, before any
\* other request for A acts, a GET for A runs within the TTL, that GET answers
\* with exactly the record the POST returned, tagged cached:true, and issues no
\* downstream call.
C1_ReadAfterWrite ==
  [][\A r \in Reqs :
       (/\ GetStep(r)
        /\ lastPost[req[r].accountId] # Null
        /\ now - lastPost[req[r].accountId][1].at <= stdTTL)
       => (/\ pc'[r] = "done"
           /\ resp'[r] = HitResponse(lastPost[req[r].accountId][1].rec)
           /\ calls'[r] = <<>>)]_vars

C1_Witness ==
  \E r \in Reqs :
    /\ pc[r] = "done" /\ req[r].kind = "GET" /\ obs[r].afterPost
    /\ IsCachedResponse(resp[r])
    /\ \E o \in Reqs \ {r} : pc[o] \in {"owner", "perm"}

\* C3: a GET that finds an entry for its account not older than the TTL
\* answers with that entry, cached:true, and issues no downstream call.
C3_HitNoDownstream ==
  [][\A r \in Reqs :
       (GetStep(r) /\ LookOf(cache, req[r].accountId, now) = "live")
       => (/\ pc'[r] = "done"
           /\ resp'[r] = HitResponse(cache[riskKey(req[r].accountId)].v)
           /\ calls'[r] = <<>>)]_vars

C3_Witness ==
  \E r \in Reqs :
    /\ pc[r] = "done" /\ req[r].kind = "GET" /\ obs[r].look = "live"
    /\ IsCachedResponse(resp[r]) /\ calls[r] = <<>>
    /\ now > 0

\* C4: a GET never answers from an entry stored more than stdTTL seconds ago,
\* however often the entry was hit in between; a GET that finds such an entry
\* issues the owner lookup.
C4_NoStaleHit ==
  [][\A r \in Reqs :
       GetStep(r) =>
         /\ IsCachedResponse(resp'[r]) => LookOf(cache, req[r].accountId, now) = "live"
         /\ LookOf(cache, req[r].accountId, now) = "stale"
              => /\ pc'[r] = "owner"
                 /\ Len(calls'[r]) = 1
                 /\ calls'[r][1].path = "/userAccountAutoLiq/deps"]_vars

C4_Witness ==
  \E r \in Reqs :
    /\ pc[r] = "owner" /\ obs[r].look = "stale" /\ Len(calls[r]) = 1

\* a payload with no allow-listed field carrying a non-null value
NoRiskField(payload) ==
  \A f \in DOMAIN payload :
    (\E i \in 1..Len(allowedFields) : allowedFields[i] = f) => payload[f] = Null

\* C5: a POST whose payload has no allow-listed field with a non-null value is
\* answered 400 in its first step, no downstream call is issued and the cache
\* is left as it was.
C5_EmptyWriteRejected ==
  [][\A r \in Reqs :
       (PostStep(r) /\ NoRiskField(req[r].payload))
       => (/\ pc'[r] = "done"
           /\ resp'[r].status = 400
           /\ resp'[r].body["success"] = FALSE
           /\ calls'[r] = <<>>
           /\ cache' = cache)]_vars

C5_Witness ==
  \E r \in Reqs :
    /\ pc[r] = "done" /\ req[r].kind = "POST"
    /\ DOMAIN req[r].payload = {"connectionRef"}
    /\ resp[r].status = 400 /\ calls[r] = <<>>
    /\ cache # <<>>

\* the downstream API rejected the delegated credential during request r
CredentialRejected(r) ==
  \E o \in {obs[r].ownerOut, obs[r].permOut, obs[r].updateOut, obs[r].listOut} :
    o # Null /\ ~o[1].ok /\ IsUnauthorizedKind(o[1].kind)

IsTokenExpired(rsp) ==
  rsp.status = 401 /\ "code" \in DOMAIN rsp.body /\ rsp.body["code"] = "TOKEN_EXPIRED"

\* C6: a GET /risk, POST /risk or GET /accounts during which the downstream
\* API rejected the delegated credential as Unauthorized ends with status 401
\* and code TOKEN_EXPIRED.
C6_UnauthorizedIsTokenExpired ==
  \A r \in Reqs :
    (pc[r] = "done" /\ CredentialRejected(r)) => IsTokenExpired(resp[r])

RejectedOut(o) == o # Null /\ ~o[1].ok /\ IsUnauthorizedKind(o[1].kind)
AnsweredOut(o) == o # Null /\ o[1].ok

\* the first record of an answered lookup when it carries a non-zero id
Identifiable(o) ==
  /\ AnsweredOut(o) /\ Len(o[1].body) > 0
  /\ "id" \in DOMAIN o[1].body[1] /\ o[1].body[1]["id"] # 0

\* C7: in a read that missed the cache, when one lookup is rejected as
\* Unauthorized and the other answers or is rejected as Unauthorized too, the
\* read answers 200 success with cached:false, carrying the surviving record
\* when it is identifiable and no settings otherwise.
C7_UnauthorizedSwallowed ==
  \A r \in Reqs :
    (/\ pc[r] = "done" /\ req[r].kind = "GET"
     /\ obs[r].ownerOut # Null /\ obs[r].permOut # Null
     /\ \/ RejectedOut(obs[r].ownerOut) /\ (AnsweredOut(obs[r].permOut) \/ RejectedOut(obs[r].permOut))
        \/ RejectedOut(obs[r].permOut) /\ (AnsweredOut(obs[r].ownerOut) \/ RejectedOut(obs[r].ownerOut)))
    => LET survivor == IF AnsweredOut(obs[r].ownerOut) THEN obs[r].ownerOut ELSE obs[r].permOut
       IN  resp[r] = MissResponse(IF Identifiable(survivor)
                                    THEN Some(survivor[1].body[1]) ELSE Null)

C7_Witness ==
  \E r \in Reqs :
    /\ pc[r] = "done" /\ req[r].kind = "GET"
    /\ RejectedOut(obs[r].permOut) /\ Identifiable(obs[r].ownerOut)
    /\ resp[r] = MissResponse(Some(obs[r].ownerOut[1].body[1]))

FailedOut(o) == o # Null /\ ~o[1].ok /\ ~IsUnauthorizedKind(o[1].kind)

\* C8: in a read that missed the cache, a lookup failing with a kind other
\* than Unauthorized ends the read at once with a failure response carrying
\* that error's message; no settings are returned and the cache is unchanged.
C8_OtherFailureFailsRead ==
  [][\A r \in Reqs :
       (/\ pc[r] \in {"owner", "perm"} /\ pc'[r] # pc[r]
        /\ \/ pc[r] = "owner" /\ FailedOut(obs'[r].ownerOut)
           \/ pc[r] = "perm" /\ FailedOut(obs'[r].permOut))
       => LET o == IF pc[r] = "owner" THEN obs'[r].ownerOut ELSE obs'[r].permOut
          IN  /\ pc'[r] = "done"
              /\ resp'[r].status # 200
              /\ resp'[r].body["success"] = FALSE
              /\ resp'[r].body["error"] = o[1].message
              /\ "autoLiq" \notin DOMAIN resp'[r].body
              /\ calls'[r] = calls[r]
              /\ cache' = cache]_vars

C8_Witness ==
  \E r \in Reqs :
    /\ pc[r] = "done" /\ req[r].kind = "GET"
    /\ Identifiable(obs[r].ownerOut) /\ FailedOut(obs[r].permOut)
    /\ resp[r].status = 500
    /\ riskKey(req[r].accountId) \notin DOMAIN cache

\* C9: a GET that missed the cache and whose two lookups each returned no
\* identifiable record (an empty result, a record without id, or a rejection
\* as Unauthorized) answers 200 success with autoLiq null and cached:false.
C9_NothingIsNoSettings ==
  \A r \in Reqs :
    (/\ pc[r] = "done" /\ req[r].kind = "GET"
     /\ obs[r].ownerOut # Null /\ obs[r].permOut # Null
     /\ \A o \in {obs[r].ownerOut, obs[r].permOut} :
          (AnsweredOut(o) /\ ~Identifiable(o)) \/ RejectedOut(o))
    => resp[r] = MissResponse(Null)

C9_Witness ==
  \E r \in Reqs :
    /\ pc[r] = "done" /\ req[r].kind = "GET"
    /\ AnsweredOut(obs[r].ownerOut) /\ Len(obs[r].ownerOut[1].body) = 0
    /\ RejectedOut(obs[r].permOut)
    /\ resp[r] = MissResponse(Null)

\* the lookup answered with exactly one record
OneRecord(out) == out.ok /\ Len(out.body) = 1

\* the lookup answered with no record, or was rejected as Unauthorized
NothingOrRejected(out) ==
  IF out.ok THEN Len(out.body) = 0 ELSE IsUnauthorizedKind(out.kind)

\* C2: when both lookups return a record, every field the two first records
\* share carries the owner record's value in the merged record that
\* getAutoLiqSettings returns.
C2_OwnerWins ==
  (/\ mResult.state = "returned"
   /\ mOwner.ok /\ Len(mOwner.body) > 0
   /\ mPerm.ok /\ Len(mPerm.body) > 0)
  => /\ mResult.result.ok
     /\ \A i \in 1..Len(mResult.result.value) :
          \A f \in DOMAIN mOwner.body[1] \cap DOMAIN mPerm.body[1] :
            /\ f \in DOMAIN mResult.result.value[i]
            /\ mResult.result.value[i][f] = mOwner.body[1][f]

C2_Witness ==
  /\ mResult.state = "returned"
  /\ mOwner = Returned(<<[id |-> 7, dailyLossAutoLiq |-> 500]>>)
  /\ mPerm = Returned(<<[id |-> 7, dailyLossAutoLiq |-> 1000, dailyProfitAutoLiq |-> 1000]>>)
  /\ mResult.result.ok
  /\ mResult.result.value =
       <<[id |-> 7, dailyLossAutoLiq |-> 500, dailyProfitAutoLiq |-> 1000]>>

\* C10 as stated: when exactly one lookup returns a record and the other
\* returns nothing or is rejected, getAutoLiqSettings returns that record
\* unchanged.
C10_AsStated ==
  /\ (mResult.state = "returned" /\ OneRecord(mOwner) /\ NothingOrRejected(mPerm))
       => (mResult.result.ok /\ mResult.result.value = <<mOwner.body[1]>>)
  /\ (mResult.state = "returned" /\ OneRecord(mPerm) /\ NothingOrRejected(mOwner))
       => (mResult.result.ok /\ mResult.result.value = <<mPerm.body[1]>>)

\* C10: when exactly one lookup returns a record carrying a non-zero id and
\* the other returns nothing or is rejected as Unauthorized, getAutoLiqSettings
\* returns that record unchanged: same fields, same values.
C10_OneSideExact ==
  /\ (/\ mResult.state = "returned"
      /\ OneRecord(mOwner) /\ Identifiable(Some(mOwner)) /\ NothingOrRejected(mPerm))
       => (mResult.result.ok /\ mResult.result.value = <<mOwner.body[1]>>)
  /\ (/\ mResult.state = "returned"
      /\ OneRecord(mPerm) /\ Identifiable(Some(mPerm)) /\ NothingOrRejected(mOwner))
       => (mResult.result.ok /\ mResult.result.value = <<mPerm.body[1]>>)

C10_Witness ==
  /\ mResult.state = "returned"
  /\ mOwner = Thrown("AccessDenied")
  /\ mPerm = Returned(<<[id |-> 7, dailyLossAutoLiq |-> 1000, dailyProfitAutoLiq |-> 1000]>>)
  /\ mResult.result.ok
  /\ mResult.result.value = mPerm.body

\* C11 as stated: for every pair of first records the two lookups return,
\* records without id included, every field of either record appears in the
\* result of getAutoLiqSettings.
C11_AsStated ==
  (/\ mResult.state = "returned"
   /\ mOwner.ok /\ Len(mOwner.body) > 0
   /\ mPerm.ok /\ Len(mPerm.body) > 0)
  => /\ mResult.result.ok
     /\ Len(mResult.result.value) = 1
     /\ \A f \in DOMAIN mOwner.body[1] \cup DOMAIN mPerm.body[1] :
          f \in DOMAIN mResult.result.value[1]

\* C11: for every pair of first records of which at least one carries a
\* non-zero id, every field of either record appears in the one record that
\* getAutoLiqSettings returns.
C11_FieldsKept ==
  (/\ mResult.state = "returned"
   /\ mOwner.ok /\ Len(mOwner.body) > 0
   /\ mPerm.ok /\ Len(mPerm.body) > 0
   /\ (Identifiable(Some(mOwner)) \/ Identifiable(Some(mPerm))))
  => /\ mResult.result.ok
     /\ Len(mResult.result.value) = 1
     /\ \A f \in DOMAIN mOwner.body[1] \cup DOMAIN mPerm.body[1] :
          f \in DOMAIN mResult.result.value[1]

C11_Witness ==
  /\ mResult.state = "returned"
  /\ mOwner = Returned(<<[dailyLossAutoLiq |-> 500]>>)
  /\ mPerm = Returned(<<[id |-> 7, dailyProfitAutoLiq |-> 1000]>>)
  /\ mResult.result.ok
  /\ DOMAIN mResult.result.value[1] = {"id", "dailyLossAutoLiq", "dailyProfitAutoLiq"}

\* the downstream API reported during request r that the resource does not exist
ReportedNotFound(r) ==
  \E o \in {obs[r].ownerOut, obs[r].permOut, obs[r].updateOut} :
    o # Null /\ ~o[1].ok /\ o[1].kind = "NotFound"

\* C16: a GET /risk or POST /risk during which the downstream API reported
\* that the resource does not exist ends with status 404, not 500.
C16_NotFoundIs404 ==
  \A r \in Reqs :
    (pc[r] = "done" /\ req[r].kind \in {"GET", "POST"} /\ ReportedNotFound(r))
    => resp[r].status = 404

\* C20: once a POST has responded successfully, the cache never holds a
\* record that a read fetched from the downstream API before that POST's
\* update was applied.
C20_NoPreWriteReinstall ==
  \A k \in DOMAIN cache : k \notin preWriteKeys

(***************************************************************************)
(* The auth scheme.                                                        *)
(***************************************************************************)
AuthStages == <<"verifyAuthToken", "getConnectionToken", "TradovateAuth.fromToken">>

TokenVerified(r) == obs[r].verifyOut # Null /\ obs[r].verifyOut[1].ok
VerifyFailedFor(r) == obs[r].verifyOut # Null /\ ~obs[r].verifyOut[1].ok

\* the store answered with a record that carries a token
CredentialResolved(r) ==
  /\ obs[r].storeOut # Null
  /\ obs[r].storeOut[1].error = Null
  /\ obs[r].storeOut[1].data # Null
  /\ ~Falsy(obs[r].storeOut[1].data[1].token)

\* the store answered without a usable record
CredentialMissing(r) == obs[r].storeOut # Null /\ ~CredentialResolved(r)

\* the handler of request r has looked at the cache or called the downstream API
HandlerActed(r) == obs[r].look # "none" \/ calls[r] # <<>>

\* C12: the collaborators of a protected request are contacted in the order
\* identity verifier, credential store, client construction, then cache or
\* downstream API, and the response comes last: the store is queried only
\* after the token is verified, cache and downstream API are touched only
\* after the credential is resolved and the client built, and once a stage
\* has failed no later stage's collaborator is contacted.
C12_StagesInOrder ==
  \A r \in Reqs :
    /\ contacts[r] = SubSeq(AuthStages, 1, Len(contacts[r]))
    /\ Len(contacts[r]) >= 2 => TokenVerified(r)
    /\ Len(contacts[r]) = 3 <=> credentials[r].tradovateAuth # Null
    /\ credentials[r].tradovateAuth # Null => CredentialResolved(r)
    /\ HandlerActed(r) => Len(contacts[r]) = 3
    /\ (req[r].kind = "GET" /\ calls[r] # <<>>) => obs[r].look # "none"
    /\ VerifyFailedFor(r) =>
         pc[r] = "done" /\ contacts[r] = <<"verifyAuthToken">> /\ ~HandlerActed(r)
    /\ CredentialMissing(r) =>
         pc[r] = "done" /\ Len(contacts[r]) = 2 /\ ~HandlerActed(r)
    /\ resp[r] # NoResp <=> pc[r] = "done"

C12_Witness ==
  \E r \in Reqs :
    /\ pc[r] = "done" /\ req[r].kind = "GET"
    /\ contacts[r] = AuthStages
    /\ obs[r].look = "absent" /\ Len(calls[r]) = 2
    /\ resp[r].status = 200

HasBearer(q) == q.authorization # Null /\ q.authorization[1][1] = TxtBearer

\* C13: a request without Authorization header, or whose header lacks the
\* Bearer prefix, is answered 401 with the body
\* {success:false, error:"Missing Authorization..."} and neither the identity
\* verifier nor the credential store is called.
C13_MissingHeaderEnvelope ==
  \A r \in Reqs :
    (pc[r] = "done" /\ ~HasBearer(req[r]))
    => /\ resp[r] = Failure(401, <<"Missing Authorization: Bearer <firebase_id_token>">>)
       /\ contacts[r] = <<>>

\* request q carries connectionRef in none of payload, query and header
NoConnectionRef(q) ==
  /\ "connectionRef" \notin DOMAIN q.payload
  /\ "connectionRef" \notin DOMAIN q.query
  /\ q.xConnectionRef = Null

\* C14: a request with a valid identity token and no connectionRef in payload,
\* query or header is answered 400 and the credential store is never queried
\* for it.
C14_MissingRefBeforeLookup ==
  \A r \in Reqs :
    (TokenVerified(r) /\ NoConnectionRef(req[r]))
    => /\ pc[r] = "done"
       /\ resp[r].status = 400
       /\ contacts[r] = <<"verifyAuthToken">>
       /\ obs[r].storeOut = Null

C14_Witness ==
  \E r \in Reqs :
    /\ pc[r] = "done" /\ req[r].kind = "POST"
    /\ TokenVerified(r) /\ NoConnectionRef(req[r])
    /\ resp[r].status = 400

\* C15: when the credential store has no record for (subject, connectionRef),
\* or a record whose token is missing or empty, the request is answered 404,
\* no client is constructed and no downstream call is made.
C15_MissingCredentialIs404 ==
  \A r \in Reqs :
    (pc[r] = "done" /\ CredentialMissing(r))
    => /\ resp[r].status = 404
       /\ credentials[r].tradovateAuth = Null
       /\ calls[r] = <<>>

\* C17: every failure of the identity-token verification is answered 401, and
\* the answer never carries the code TOKEN_EXPIRED.
C17_VerifyFailureIs401 ==
  \A r \in Reqs :
    VerifyFailedFor(r)
    => /\ pc[r] = "done"
       /\ resp[r].status = 401
       /\ "code" \notin DOMAIN resp[r].body

C17_Witness ==
  \E r \in Reqs :
    /\ pc[r] = "done"
    /\ obs[r].verifyOut = Some(VerifyFailed(<<"Firebase ID token has invalid signature">>))
    /\ resp[r] = AuthFailure(401, <<"Firebase ID token has invalid signature">>)

\* request q carries connectionRef in exactly one of payload, query and header
SingleChannel(q) ==
  Cardinality({c \in {"payload", "query", "header"} :
                 \/ c = "payload" /\ "connectionRef" \in DOMAIN q.payload
                 \/ c = "query" /\ "connectionRef" \in DOMAIN q.query
                 \/ c = "header" /\ q.xConnectionRef # Null}) = 1

\* C18: with a valid identity token and an existing connection, a request to
\* GET /accounts, GET /risk or POST /risk that carries connectionRef in a
\* single channel (JSON body on POST, query parameter or X-Connection-Ref
\* header) is served by its handler.
C18_AnySingleChannel ==
  \A r \in Reqs :
    (/\ pc[r] = "done" /\ TokenVerified(r) /\ SingleChannel(req[r])
     /\ obs[r].storeOut # Null => CredentialResolved(r))
    => /\ CredentialResolved(r)
       /\ resp[r] # ValidationFailure

\* a collaborator failed while request r was served
SomethingFailed(r) ==
  \/ VerifyFailedFor(r)
  \/ CredentialMissing(r)
  \/ \E o \in {obs[r].ownerOut, obs[r].permOut, obs[r].updateOut, obs[r].listOut} :
       o # Null /\ ~o[1].ok /\ ~Denied(o[1].message)

\* C19: whenever the identity verifier, the credential store or the downstream
\* API fails, the request ends in a response that carries the failure envelope
\* {success:false, error[, code]}.
C19_FailureEnvelope ==
  \A r \in Reqs :
    SomethingFailed(r)
    => /\ pc[r] = "done"
       /\ DOMAIN resp[r].body \in {{"success", "error"}, {"success", "error", "code"}}
       /\ resp[r].body["success"] = FALSE

(***************************************************************************)
(* Downstream calls of one request.                                        *)
(***************************************************************************)
\* the answers the downstream API has given to request r so far
Answers(r) ==
  {k \in {"ownerOut", "permOut", "updateOut", "listOut"} : obs[r][k] # Null}

\* C23: no request issues the same downstream call twice: a read issues at most
\* one owner lookup and at most one permissioned lookup, a write issues exactly
\* one update call and none when its payload is rejected, and a call that
\* failed is not issued again.
C23_NoCallTwice ==
  \A r \in Reqs :
    /\ \A i, j \in 1..Len(calls[r]) : calls[r][i].path = calls[r][j].path => i = j
    /\ req[r].kind = "GET" =>
         \A i \in 1..Len(calls[r]) :
           calls[r][i].path \in {"/userAccountAutoLiq/deps", "/permissionedAccountAutoLiq/deps"}
    /\ (req[r].kind = "POST" /\ pc[r] \in {"update", "done"}) =>
         IF NoRiskField(req[r].payload)
           THEN calls[r] = <<>>
           ELSE /\ Len(calls[r]) = 1
                /\ calls[r][1].path = "/userAccountAutoLiq/updateuserautoliq"
    /\ Len(calls[r]) = Cardinality(Answers(r))
                         + (IF pc[r] \in {"owner", "perm", "update", "list"} THEN 1 ELSE 0)

C23_Witness ==
  \E r \in Reqs :
    /\ pc[r] = "done" /\ req[r].kind = "GET"
    /\ FailedOut(obs[r].permOut)
    /\ Len(calls[r]) = 2

(***************************************************************************)
(* Reads that populate the cache.                                          *)
(***************************************************************************)
\* request r runs the cache check of GET /risk right after a read for the same
\* account missed the cache and answered successfully, within the TTL
FollowsMiss(r) ==
  /\ GetStep(r)
  /\ lastMiss[req[r].accountId] # Null
  /\ now - lastMiss[req[r].accountId][1].at <= stdTTL

\* C24 as stated: after a GET that missed the cache and completed
\* successfully, an immediately following GET for the same account is a cache
\* hit that returns the same result.
C24_AsStated ==
  [][\A r \in Reqs :
       FollowsMiss(r)
       => (/\ pc'[r] = "done"
           /\ resp'[r] = Ok([success |-> TRUE,
                             autoLiq |-> lastMiss[req[r].accountId][1].autoLiq,
                             cached |-> TRUE]))]_vars

\* C24: after a GET that missed the cache and answered successfully with a
\* settings record, the cache holds that record for the account, and an
\* immediately following GET for the same account within the TTL is a cache
\* hit that returns the same record without a downstream call.
C24_MissPopulates ==
  [][\A r \in Reqs :
       (FollowsMiss(r) /\ lastMiss[req[r].accountId][1].autoLiq # Null)
       => (/\ riskKey(req[r].accountId) \in DOMAIN cache
           /\ Some(cache[riskKey(req[r].accountId)].v) = lastMiss[req[r].accountId][1].autoLiq
           /\ pc'[r] = "done"
           /\ resp'[r] = HitResponse(lastMiss[req[r].accountId][1].autoLiq[1])
           /\ calls'[r] = <<>>)]_vars

C24_Witness ==
  \E r, q \in Reqs :
    /\ r # q /\ req[r].accountId = req[q].accountId
    /\ pc[q] = "done" /\ req[q].kind = "GET" /\ obs[q].permOut # Null
    /\ pc[r] = "done" /\ req[r].kind = "GET"
    /\ lastMiss[req[r].accountId] = Null
    /\ resp[q].status = 200 /\ resp[q].body["autoLiq"] # Null
    /\ resp[r] = HitResponse(resp[q].body["autoLiq"][1])

(***************************************************************************)
(* The update call of a write.                                             *)
(***************************************************************************)
\* C26: the body of the one update call a POST /risk issues consists of exactly
\* accountId plus the payload's allow-listed fields that have non-null values,
\* each with the payload's value; connectionRef and keys outside the allow-list
\* are not in it.
C26_UpdateBodyExact ==
  \A r \in Reqs :
    (req[r].kind = "POST" /\ calls[r] # <<>>)
    => LET body == calls[r][1].arg
           payload == req[r].payload
           forwarded == {k \in DOMAIN payload :
                           /\ \E i \in 1..Len(allowedFields) : allowedFields[i] = k
                           /\ payload[k] # Null}
       IN  /\ Len(calls[r]) = 1
           /\ DOMAIN body = {"accountId"} \cup forwarded
           /\ body["accountId"] = Some(req[r].accountId)
           /\ \A k \in forwarded : body[k] = payload[k]
           /\ "connectionRef" \notin DOMAIN body
           /\ "doNotUnlock" \notin DOMAIN body

C26_Witness ==
  \E r \in Reqs :
    /\ req[r].kind = "POST" /\ pc[r] = "update"
    /\ req[r].payload = [connectionRef |-> "TS-1", doNotUnlock |-> Some(1),
                         dailyLossAutoLiq |-> Some(1000)]
    /\ calls[r][1].arg = [accountId |-> Some(req[r].accountId),
                          dailyLossAutoLiq |-> Some(1000)]

\* C27: a POST /risk answers 401 TOKEN_EXPIRED only when the downstream API
\* rejected the delegated credential; an errorText in the update response or a
\* missing entity is never reported as TOKEN_EXPIRED, whatever the account id.
C27_TokenExpiredOnlyOnRejection ==
  \A r \in Reqs :
    (pc[r] = "done" /\ req[r].kind = "POST" /\ IsTokenExpired(resp[r]))
    => RejectedOut(obs[r].updateOut)

(***************************************************************************)
(* Failures and the cache.                                                 *)
(***************************************************************************)
\* the entries of the cache that get() would still return at the given time
LiveEntries(c, time) == [k \in {x \in DOMAIN c : ~Expired(c[x], time)} |-> c[k]]

\* request r takes a step of its GET /risk or POST /risk handler
HandlerStep(r) ==
  /\ req[r].kind \in {"GET", "POST"}
  /\ pc[r] \in {"handler", "owner", "perm", "update"}
  /\ pc'[r] # pc[r]

\* C28: the step in which a GET or POST ends in a failure response (payload
\* without allow-listed value, downstream error, errorText or missing entity)
\* leaves the cache as it is, and so does every earlier step of the request,
\* but for the cache check dropping an entry that has already expired: no
\* entry is added, replaced or invalidated.
C28_FailureLeavesCache ==
  [][\A r \in Reqs :
       (HandlerStep(r) /\ ~(pc'[r] = "done" /\ resp'[r].status = 200))
       => /\ LiveEntries(cache', now) = LiveEntries(cache, now)
          /\ DOMAIN cache' \subseteq DOMAIN cache
          /\ (pc'[r] = "done" => cache' = cache)]_vars

C28_Witness ==
  \E r \in Reqs :
    /\ pc[r] = "done" /\ req[r].kind = "POST"
    /\ obs[r].updateOut # Null /\ resp[r].status = 500
    /\ riskKey(req[r].accountId) \in DOMAIN cache
    /\ ~Expired(cache[riskKey(req[r].accountId)], now)

(***************************************************************************)
(* setAutoLiqSettings.                                                     *)
(***************************************************************************)
\* the update response carries a non-empty errorText
CarriesErrorText(body) == "errorText" \in DOMAIN body /\ body["errorText"] # <<>>

\* C25: when the update call returns, setAutoLiqSettings fails with the
\* downstream error text whenever the response carries a (non-empty) errorText,
\* even if an entity is present too; otherwise it returns the owner-shape
\* entity if present, else the permissioned-shape entity, and it fails with
\* "No auto-liq entity returned" exactly when neither shape is present.
C25_WriteResult ==
  (wResult.state = "returned" /\ wOut.ok)
  => LET body == wOut.body
         result == wResult.result
         noEntity == [ok |-> FALSE,
                      message |-> <<"No auto-liq entity returned for account ">>
                                    \o Digits(wAccountId)]
     IN  /\ CarriesErrorText(body) =>
              result = [ok |-> FALSE,
                        message |-> <<"Failed to set auto-liq for account ">>
                                      \o Digits(wAccountId) \o <<": ">> \o body["errorText"]]
         /\ (~CarriesErrorText(body) /\ "userAccountAutoLiq" \in DOMAIN body) =>
              result = [ok |-> TRUE, value |-> body["userAccountAutoLiq"]]
         /\ (/\ ~CarriesErrorText(body) /\ "userAccountAutoLiq" \notin DOMAIN body
             /\ "permissionedAccountAutoLiq" \in DOMAIN body) =>
              result = [ok |-> TRUE, value |-> body["permissionedAccountAutoLiq"]]
         /\ result = noEntity <=>
              /\ ~CarriesErrorText(body)
              /\ "userAccountAutoLiq" \notin DOMAIN body
              /\ "permissionedAccountAutoLiq" \notin DOMAIN body

C25_Witness ==
  /\ wResult.state = "returned" /\ wAccountId = 4010
  /\ wOut = Returned([errorText |-> <<"Unsupported parameters">>,
                      userAccountAutoLiq |-> [id |-> 7, dailyLossAutoLiq |-> 500]])
  /\ ~wResult.result.ok

(***************************************************************************)
(* The base URL of the client.                                             *)
(***************************************************************************)
\* the URL getConnectionToken returned for request r
StoredUrl(r) ==
  IF obs[r].storeOut[1].data[1].url # Null
    THEN obs[r].storeOut[1].data[1].url[1]
    ELSE DemoUrl

\* C30: the base URL handed to the client factory always ends with /v1: a
\* stored URL that does not end with it gets it appended exactly once, a URL
\* that ends with /v1 is passed unchanged, and normalising the result again
\* changes nothing.
C30_BaseUrlNormalised ==
  \A r \in Reqs :
    credentials[r].tradovateAuth # Null
    => LET handed == credentials[r].tradovateAuth[1].baseUrl
           stored == StoredUrl(r)
           last == stored # <<>> /\ stored[Len(stored)] = "/v1"
       IN  /\ handed[Len(handed)] = "/v1"
           /\ last => handed = stored
           /\ ~last => handed = Append(stored, "/v1")
           /\ BaseUrl(handed) = handed
           /\ BaseUrl(BaseUrl(stored)) = BaseUrl(stored)

C30_Witness ==
  \E r \in Reqs :
    /\ pc[r] = "handler"
    /\ obs[r].storeOut[1].data[1].url = Some(DemoUrl)
    /\ credentials[r].tradovateAuth[1].baseUrl = <<"https://demo.tradovateapi.com", "/v1">>

(***************************************************************************)
(* Overlapping writes.                                                     *)
(***************************************************************************)
\* no request is between its arrival and its response
Quiescent == \A r \in Reqs : pc[r] \in {"idle", "done"}

\* C29: once no request is in flight, the cached record of an account is the
\* record of the update the downstream API applied last, also when two POSTs
\* for the account overlapped.
C29_CacheAgreesWithDownstream ==
  \A a \in Accounts :
    (Quiescent /\ applied[a] # Null)
    => /\ riskKey(a) \in DOMAIN cache
       /\ cache[riskKey(a)].v = applied[a][1]

(***************************************************************************)
(* Credentials of concurrent requests.                                     *)
(***************************************************************************)
\* the client that belongs to request r: built from the row the store holds
\* for the subject of r's identity token and r's connection reference
OwnClient(r) ==
  LET row == TokenTable(SubjectOf(Tail(req[r].authorization[1])),
                        ConnectionRefOf(PayloadAtAuth(req[r]), req[r].query,
                                        req[r].xConnectionRef)[1]).data[1]
  IN  FromToken(BaseUrl(IF row.url # Null THEN row.url[1] ELSE DemoUrl), row.token[1])

\* C22: in every interleaving of concurrent requests, each downstream call
\* carries the token and base URL resolved from the (subject, connectionRef)
\* of the request that issued it.
C22_OwnCredentialOnEveryCall ==
  \A r \in Reqs : \A i \in 1..Len(callAuth[r]) : callAuth[r][i] = Some(OwnClient(r))

\* two requests with different credentials both have a call in flight
C22_Witness ==
  /\ Len(callAuth["r1"]) > 0
  /\ Len(callAuth["r2"]) > 0
  /\ callAuth["r1"][1] # callAuth["r2"][1]
  /\ pc["r1"] \in {"owner", "perm", "update"}
  /\ pc["r2"] \in {"owner", "perm", "update"}

\* the request was made with a credential the downstream API denies
MadeWithDenied(r) ==
  /\ credentials[r].tradovateAuth # Null
  /\ credentials[r].tradovateAuth[1].token \in DeniedTokens

\* C21: a GET made with a credential that the downstream API denies at both
\* sources never answers with a settings record, in particular not with one
\* that a request made with another credential left in the cache.
C21_DeniedNeverServed ==
  \A r \in Reqs :
    (pc[r] = "done" /\ req[r].kind = "GET" /\ MadeWithDenied(r))
    => ~(/\ resp[r].status = 200
         /\ "autoLiq" \in DOMAIN resp[r].body
         /\ resp[r].body["autoLiq"] # Null)

====
